---- MODULE Spec2Model ----
(***************************************************************************)
(* Model of the MakeMeHired CV generation backend (src/main.py,            *)
(* src/schemas.py): validation of a submission against CVProfile, the      *)
(* generate_cv handler (persist, render, convert, package) and the         *)
(* get_templates handler.                                                  *)
(*                                                                         *)
(* Text is a sequence of one-character strings.  Markup is a sequence of   *)
(* tokens: the literal fragments of the template are single tokens, and    *)
(* interpolated text contributes its characters one by one.                *)
(***************************************************************************)
EXTENDS Integers, Sequences, FiniteSets, TLC

\* ------------------------------------------------------------------ bounds
MaxLen == 2          \* longest full_name / job_title_target enumerated
MaxItems == 2        \* longest list of strings enumerated
MaxRequests == 3     \* requests served in the server specification

\* ------------------------------------------------------------ text helpers
Chars == {"a", " ", "\t"}

Whitespace == {" ", "\t", "\n"}

StrUpTo(n) == UNION {[1..k -> Chars] : k \in 0..n}

\* Python truthiness of a str
TruthyStr(s) == s /= <<>>

RECURSIVE lstrip(_)
lstrip(s) ==
    IF s /= <<>> /\ Head(s) \in Whitespace THEN lstrip(Tail(s)) ELSE s

RECURSIVE rstrip(_)
rstrip(s) ==
    IF s /= <<>> /\ s[Len(s)] \in Whitespace
    THEN rstrip(SubSeq(s, 1, Len(s) - 1)) ELSE s

\* str.strip()
strip(s) == rstrip(lstrip(s))

\* str.replace(old, "") for a one-character old
RECURSIVE replace(_, _)
replace(s, old) ==
    IF s = <<>> THEN <<>>
    ELSE IF Head(s) = old THEN replace(Tail(s), old)
    ELSE <<Head(s)>> \o replace(Tail(s), old)

\* "".join(parts)
RECURSIVE join(_)
join(parts) ==
    IF parts = <<>> THEN <<>> ELSE Head(parts) \o join(Tail(parts))

\* [f(x) for x in xs] and [x for x in xs if P(x)]
Map(f(_), xs) == [i \in 1..Len(xs) |-> f(xs[i])]

\* ------------------------------------------------------- submitted values
\* A submitted JSON value: a key that is missing, null, a string, a list,
\* or an object where a string or list is expected.
Absent == [t |-> "absent", v |-> <<>>]
Null == [t |-> "null", v |-> <<>>]
Obj == [t |-> "obj", v |-> <<>>]
Str(s) == [t |-> "str", v |-> s]
List(xs) == [t |-> "list", v |-> xs]

IsStr(x) == x.t = "str"
IsNull(x) == x.t = "null"
IsAbsent(x) == x.t = "absent"
IsList(x) == x.t = "list"

\* truthiness of an Optional[str] / Optional[List[str]] value
Truthy(x) == x.t \in {"str", "list"} /\ x.v /= <<>>

\* ------------------------------------------------- schemas.py: validation
\* mutant: the field is declared with a default, so it may be missing
RequiredStr_defaulted(x) == IsStr(x) \/ IsAbsent(x)

\* a str field declared with Field(...): must be present and a string
RequiredStr(x) == IsStr(x)

\* Optional[str] = Field(None) / Field("modern")
OptionalStr(x) == x.t \in {"absent", "null", "str"}

AllStr(xs) == \A i \in 1..Len(xs) : IsStr(xs[i])

\* List[str] = Field(default_factory=list)
ListOfStr(x) == IsAbsent(x) \/ (IsList(x) /\ AllStr(x.v))

\* Optional[List[str]] = Field(default_factory=list)
OptionalListOfStr(x) == IsNull(x) \/ ListOfStr(x)

Count(s, c) == Cardinality({i \in 1..Len(s) : s[i] = c})

\* EmailStr: surrounding whitespace is stripped, then the address must be
\* local@domain with a non-empty local part, a dotted domain with non-empty
\* labels and no whitespace.
EmailSyntax(s) ==
    /\ Count(s, "@") = 1
    /\ \A i \in 1..Len(s) : s[i] \notin Whitespace
    /\ LET at == CHOOSE i \in 1..Len(s) : s[i] = "@"
           dom == SubSeq(s, at + 1, Len(s))
       IN /\ at > 1
          /\ Count(dom, ".") >= 1
          /\ dom[1] /= "."
          /\ dom[Len(dom)] /= "."
          /\ \A i \in 1..(Len(dom) - 1) : ~(dom[i] = "." /\ dom[i + 1] = ".")

\* mutant: email declared as a plain str
EmailStr_plain(x) == IsStr(x)

EmailStr(x) == IsStr(x) /\ EmailSyntax(strip(x.v))

CVExperienceValid(e) ==
    /\ RequiredStr(e.company)
    /\ RequiredStr(e.role)
    /\ RequiredStr(e.duration)
    /\ ListOfStr(e.achievements)

CVEducationValid(ed) ==
    /\ RequiredStr(ed.degree)
    /\ RequiredStr(ed.institution)
    /\ RequiredStr(ed.year)

\* does the submission validate as a CVProfile
CVProfileValid(raw) ==
    /\ RequiredStr(raw.full_name)
    /\ EmailStr(raw.email)
    /\ RequiredStr(raw.phone)
    /\ OptionalStr(raw.linkedin)
    /\ OptionalStr(raw.summary)
    /\ RequiredStr(raw.job_title_target)
    /\ ListOfStr(raw.skills)
    /\ \/ IsAbsent(raw.experience)
       \/ IsList(raw.experience)
          /\ \A i \in 1..Len(raw.experience.v) :
                CVExperienceValid(raw.experience.v[i])
    /\ \/ IsAbsent(raw.education)
       \/ IsList(raw.education)
          /\ \A i \in 1..Len(raw.education.v) :
                CVEducationValid(raw.education.v[i])
    /\ OptionalListOfStr(raw.certifications)
    /\ OptionalListOfStr(raw.projects)
    /\ OptionalListOfStr(raw.languages)
    /\ OptionalListOfStr(raw.interests)
    /\ OptionalStr(raw.template)

\* values of validated fields
Texts(xs) == [i \in 1..Len(xs) |-> xs[i].v]

ListValue(x) == IF IsAbsent(x) THEN <<>> ELSE Texts(x.v)

OptionalListValue(x) == IF IsNull(x) THEN Null ELSE List(ListValue(x))

OptionalStrValue(x, default) == IF IsAbsent(x) THEN default ELSE x

CVExperience(e) ==
    [company |-> e.company.v, role |-> e.role.v, duration |-> e.duration.v,
     achievements |-> ListValue(e.achievements)]

CVEducation(ed) ==
    [degree |-> ed.degree.v, institution |-> ed.institution.v,
     year |-> ed.year.v]

\* the CVProfile built from a submission that validates
CVProfile(raw) ==
    [full_name |-> raw.full_name.v,
     email |-> strip(raw.email.v),
     phone |-> raw.phone.v,
     linkedin |-> OptionalStrValue(raw.linkedin, Null),
     summary |-> OptionalStrValue(raw.summary, Null),
     job_title_target |-> raw.job_title_target.v,
     skills |-> ListValue(raw.skills),
     experience |-> IF IsAbsent(raw.experience) THEN <<>>
                    ELSE [i \in 1..Len(raw.experience.v) |->
                            CVExperience(raw.experience.v[i])],
     education |-> IF IsAbsent(raw.education) THEN <<>>
                   ELSE [i \in 1..Len(raw.education.v) |->
                            CVEducation(raw.education.v[i])],
     certifications |-> OptionalListValue(raw.certifications),
     projects |-> OptionalListValue(raw.projects),
     languages |-> OptionalListValue(raw.languages),
     interests |-> OptionalListValue(raw.interests),
     template |-> OptionalStrValue(raw.template, Str(<<"m","o","d","e","r","n">>))]

\* ------------------------------------------------- main.py: CV rendering
\* [s.strip() for s in skills if s and isinstance(s, str)]
skills_to_keywords(skills) == Map(strip, SelectSeq(skills, TruthyStr))

Li(p) == <<"<li>">> \o p \o <<"</li>">>

\* render_cv_html.bullet_list
bullet_list(items) ==
    IF ~Truthy(items) THEN <<>>
    ELSE LET lis == join(Map(Li, SelectSeq(items.v, TruthyStr)))
         IN <<"<ul>">> \o lis \o <<"</ul>">>

ExpItem(e) ==
    <<"<div class='exp-item'><div class='exp-header'><strong>">> \o e.role
    \o <<"</strong> | ">> \o e.company \o <<" -- <span class='muted'>">>
    \o e.duration \o <<"</span></div>">>
    \o bullet_list(List(e.achievements)) \o <<"</div>">>

EduItem(ed) ==
    <<"<div class='edu-item'><strong>">> \o ed.degree \o <<"</strong>, ">>
    \o ed.institution \o <<" -- <span class='muted'>">> \o ed.year
    \o <<"</span></div>">>

Tag(s) == <<"<span class='tag'>">> \o s \o <<"</span>">>

Fallback(job_title_target) ==
    <<"Results-driven ">> \o job_title_target
    \o <<" with experience across key areas and strong focus on measurable impact.">>

\* mutant: the fallback is used only when summary is None
SummaryText_none_only(data) ==
    IF IsNull(data.summary) THEN Fallback(data.job_title_target)
    ELSE data.summary.v

\* data.summary or f"Results-driven ..."
SummaryText(data) ==
    IF Truthy(data.summary) THEN data.summary.v
    ELSE Fallback(data.job_title_target)

Section(heading, body) ==
    IF body /= <<>>
    THEN <<"<div class='section'>", heading>> \o body \o <<"</div>">>
    ELSE <<>>

\* mutant: the stylesheet is chosen by data.template
HeadHtml_by_template(data) ==
    <<"<!DOCTYPE html><html><head><meta charset='utf-8'><title>">>
    \o data.full_name \o <<" -- ">> \o data.job_title_target
    \o <<" CV</title><style>">>
    \o (IF IsStr(data.template) THEN data.template.v ELSE <<>>)
    \o <<"</style></head>">>

\* the <head> of the document: title and the fixed stylesheet
HeadHtml(data) ==
    <<"<!DOCTYPE html><html><head><meta charset='utf-8'><title>">>
    \o data.full_name \o <<" -- ">> \o data.job_title_target
    \o <<" CV</title><style>...</style></head>">>

render_cv_html(data) ==
    LET exp_html == join(Map(ExpItem, data.experience))
        edu_html == join(Map(EduItem, data.education))
        certs_html == bullet_list(data.certifications)
        projects_html == bullet_list(data.projects)
        languages_html == bullet_list(data.languages)
        interests_html == bullet_list(data.interests)
        skills_html == join(Map(Tag, skills_to_keywords(data.skills)))
    IN HeadHtml(data)
       \o <<"<body><div class='header'><div class='name'>">>
       \o data.full_name \o <<"</div><div class='contact'>">>
       \o data.phone \o <<" * ">> \o data.email
       \o (IF Truthy(data.linkedin) THEN <<" * ">> \o data.linkedin.v ELSE <<>>)
       \o <<"</div></div>">>
       \o <<"<div class='section'>", "<h2>Professional Summary</h2>", "<p>">>
       \o SummaryText(data) \o <<"</p>", "</div>">>
       \o <<"<div class='section'>", "<h2>Core Skills</h2>", "<div>">>
       \o skills_html \o <<"</div>", "</div>">>
       \o <<"<div class='section'>", "<h2>Professional Experience</h2>">>
       \o exp_html \o <<"</div>">>
       \o <<"<div class='section'>", "<h2>Education</h2>">>
       \o edu_html \o <<"</div>">>
       \o Section("<h2>Certifications</h2>", certs_html)
       \o Section("<h2>Projects / Achievements</h2>", projects_html)
       \o Section("<h2>Languages</h2>", languages_html)
       \o Section("<h2>Interests</h2>", interests_html)
       \o <<"</body></html>">>

\* --------------------------------------------- main.py: document conversion
ConvOutcomes == {"ok", "err", "raise"}

\* html_to_pdf_bytes: pisa.CreatePDF writes the document into the buffer and
\* returns a status whose err flag reports a failed conversion ("err"), or
\* raises ("raise").  The status is discarded; the buffer is read back.
html_to_pdf_bytes(html, conv) ==
    [raised |-> conv = "raise",
     bytes |-> IF conv = "ok" THEN <<"%PDF-">> \o html \o <<"%%EOF">>
               ELSE <<>>]

\* base64.b64encode(pdf_bytes).decode("utf-8")
b64encode(bytes) == [i \in 1..Len(bytes) |-> <<"b64", bytes[i]>>]

\* ------------------------------------------------------ database (store)
DocId(n) == [t |-> "id", v |-> <<n>>]

\* create_document(collection_name, data): appends one record and returns
\* its identifier, or raises and leaves the datastore as it was.
create_document(st, collection_name, data, dbok) ==
    IF dbok
    THEN [raised |-> FALSE,
          store |-> Append(st, [collection |-> collection_name, doc |-> data]),
          id |-> DocId(Len(st) + 1)]
    ELSE [raised |-> TRUE, store |-> st, id |-> Null]

\* ------------------------------------------------------ main.py: handlers
Response(status, id, filename, html, pdf_base64, templates) ==
    [status |-> status, id |-> id, filename |-> filename, html |-> html,
     pdf_base64 |-> pdf_base64, templates |-> templates]

NoResponse == Response(0, Null, <<>>, <<>>, <<>>, <<>>)

\* 422 produced by the framework when the body is not a CVProfile
ValidationError == Response(422, Null, <<>>, <<>>, <<>>, <<>>)

\* 500 produced by the framework when the handler raises
ServerError == Response(500, Null, <<>>, <<>>, <<>>, <<>>)

\* mutant: the job title is inserted as submitted
Filename_raw_title(profile) ==
    replace(profile.full_name, " ") \o <<"_">>
    \o profile.job_title_target \o <<"_MakeMeHiredCV.pdf">>

\* f"{full_name.replace(' ', '')}_{job_title_target.replace(' ', '')}_MakeMeHiredCV.pdf"
Filename(profile) ==
    replace(profile.full_name, " ") \o <<"_">>
    \o replace(profile.job_title_target, " ") \o <<"_MakeMeHiredCV.pdf">>

\* mutant: no except clause, the exception of create_document escapes
TryCreateDocument_uncaught(w) == [raised |-> w.raised, doc_id |-> w.id]

\* try: doc_id = create_document(...) except Exception: doc_id = None
TryCreateDocument(w) ==
    [raised |-> FALSE, doc_id |-> IF w.raised THEN Null ELSE w.id]

\* mutant: the profile is persisted after the conversion, so a conversion
\* that raises leaves no record
generate_cv_persist_last(profile, st, dbok, conv) ==
    LET w == create_document(st, "cvprofile", profile, dbok)
        try == TryCreateDocument(w)
        html == render_cv_html(profile)
        pdf == html_to_pdf_bytes(html, conv)
        pdf_b64 == b64encode(pdf.bytes)
        filename == Filename(profile)
    IN [store |-> IF pdf.raised THEN st ELSE w.store,
        calls |-> IF pdf.raised THEN <<"render_cv_html", "html_to_pdf_bytes">>
                  ELSE <<"render_cv_html", "html_to_pdf_bytes", "create_document">>,
        response |-> IF try.raised \/ pdf.raised THEN ServerError
                     ELSE Response(200, try.doc_id, filename, html, pdf_b64, <<>>)]

\* the body of generate_cv, run on a validated profile
generate_cv(profile, st, dbok, conv) ==
    LET w == create_document(st, "cvprofile", profile, dbok)
        try == TryCreateDocument(w)
        html == render_cv_html(profile)
        pdf == html_to_pdf_bytes(html, conv)
        pdf_b64 == b64encode(pdf.bytes)
        filename == Filename(profile)
    IN IF try.raised
       THEN [store |-> w.store, calls |-> <<"create_document">>,
             response |-> ServerError]
       ELSE [store |-> w.store,
             calls |-> <<"create_document", "render_cv_html", "html_to_pdf_bytes">>,
             response |-> IF pdf.raised THEN ServerError
                          ELSE Response(200, try.doc_id, filename, html, pdf_b64, <<>>)]

get_templates == Response(200, Null, <<>>, <<>>, <<>>, <<"modern", "minimal", "classic">>)

\* ---------------------------------------------------------- submissions
A == <<"a">>

Base ==
    [full_name |-> Str(A), email |-> Str(<<"a", "@", "a", ".", "a">>),
     phone |-> Str(A), linkedin |-> Absent, summary |-> Absent,
     job_title_target |-> Str(A), skills |-> Absent, experience |-> Absent,
     education |-> Absent, certifications |-> Absent, projects |-> Absent,
     languages |-> Absent, interests |-> Absent, template |-> Absent]

EmptySubmission ==
    [f \in DOMAIN Base |-> Absent]

\* list entries: empty, whitespace-only, plain, padded
Items == {<<>>, <<" ">>, A, <<" ", "a", " ">>}

RawLists ==
    {List(Map(Str, xs)) : xs \in UNION {[1..k -> Items] : k \in 0..MaxItems}}

BadValues == {Null, Obj}

BadLists == {Obj, List(<<Obj>>), List(<<Str(A), Null>>)}

Emails ==
    {<<>>, A, <<"a", "@">>, <<"@", "a", ".", "a">>, <<"a", "@", "a">>,
     <<"a", "@", "a", ".", "a">>, <<" ", "a", "@", "a", ".", "a", " ">>,
     <<"a", " ", "@", "a", ".", "a">>, <<"a", "@", "a", ".", ".", "a">>,
     <<"a", "@", ".", "a">>, <<"a", "@", "a", ".">>,
     <<"a", "@", "@", "a", ".", "a">>}

OptTexts == {Absent, Null, Str(<<>>), Str(A), Str(<<"a", " ", "a">>), Obj}

TemplateValues ==
    {Absent, Null, Obj, Str(<<"m","o","d","e","r","n">>),
     Str(<<"m","i","n","i","m","a","l">>), Str(<<"x">>)}

Entry(ach) ==
    [company |-> Str(A), role |-> Str(A), duration |-> Str(A),
     achievements |-> ach]

Education == [degree |-> Str(A), institution |-> Str(A), year |-> Str(A)]

Submissions ==
    {[Base EXCEPT !.full_name = Str(n), !.job_title_target = Str(j),
                  !.phone = Str(ph)] :
        n \in StrUpTo(MaxLen), j \in StrUpTo(MaxLen), ph \in {<<>>, A}}
    \cup {[Base EXCEPT ![f] = b] :
            f \in {"full_name", "email", "phone", "job_title_target"},
            b \in BadValues \cup {Absent}}
    \cup {[Base EXCEPT !.email = Str(e)] : e \in Emails}
    \cup {[Base EXCEPT !.linkedin = l, !.summary = su, !.job_title_target = Str(j)] :
            l \in OptTexts, su \in OptTexts, j \in {<<>>, A}}
    \cup {[Base EXCEPT !.template = t, !.summary = su] :
            t \in TemplateValues, su \in {Absent, Str(A)}}
    \cup {[Base EXCEPT !.skills = sk] : sk \in RawLists \cup BadLists \cup {Null}}
    \cup {[Base EXCEPT ![f] = l] :
            f \in {"certifications", "projects", "languages", "interests"},
            l \in RawLists \cup BadLists \cup {Null}}
    \cup {[Base EXCEPT !.certifications = c, !.interests = i, !.skills = sk] :
            c \in {Absent, List(<<Str(<<>>)>>), List(<<Str(A)>>)},
            i \in {Null, List(<<Str(<<>>)>>), List(<<Str(A)>>)},
            sk \in {Absent, List(<<Str(<<" ">>), Str(A)>>)}}
    \cup {[Base EXCEPT !.experience = List(<<Entry(ach)>>)] :
            ach \in RawLists \cup BadLists \cup {Absent, Null}}
    \cup {[Base EXCEPT !.experience = x, !.education = ed] :
            x \in {List(<<>>), List(<<Entry(Absent), Entry(List(<<Str(A)>>))>>),
                   List(<<[Entry(Absent) EXCEPT !.role = Absent]>>), Obj},
            ed \in {List(<<>>), List(<<Education>>),
                    List(<<Education, [Education EXCEPT !.year = Null]>>), Null}}

\* the few submissions replayed in sequences of requests
ServerSubmissions ==
    {Base, [Base EXCEPT !.full_name = Str(<<"a", " ", "a">>)],
     [Base EXCEPT !.email = Absent], [Base EXCEPT !.skills = Obj]}

\* ------------------------------------------------------------ state machine
VARIABLES store, request, seen, calls, response, nreq

vars == <<store, request, seen, calls, response, nreq>>

Request(op, raw, dbok, conv) ==
    [op |-> op, raw |-> raw, dbok |-> dbok, conv |-> conv]

Init ==
    /\ store = <<>>
    /\ request = Request("none", EmptySubmission, TRUE, "ok")
    /\ seen = <<>>
    /\ calls = <<>>
    /\ response = NoResponse
    /\ nreq = 0

\* POST /api/cv/generate: the framework validates the body as a CVProfile
\* and only then runs generate_cv
PostGenerate(raw, dbok, conv) ==
    /\ nreq < MaxRequests
    /\ nreq' = nreq + 1
    /\ request' = Request("generate", raw, dbok, conv)
    /\ IF CVProfileValid(raw)
       THEN LET profile == CVProfile(raw)
                r == generate_cv(profile, store, dbok, conv)
            IN /\ seen' = <<profile>>
               /\ store' = r.store
               /\ calls' = r.calls
               /\ response' = r.response
       ELSE /\ seen' = <<>>
            /\ calls' = <<>>
            /\ response' = ValidationError
            /\ UNCHANGED store

\* GET /api/cv/templates
GetTemplates ==
    /\ nreq < MaxRequests
    /\ nreq' = nreq + 1
    /\ request' = Request("templates", EmptySubmission, TRUE, "ok")
    /\ seen' = <<>>
    /\ calls' = <<>>
    /\ response' = get_templates
    /\ UNCHANGED store

\* one request, over every enumerated submission
Next ==
    \/ \E raw \in Submissions, dbok \in BOOLEAN, conv \in ConvOutcomes :
          nreq = 0 /\ PostGenerate(raw, dbok, conv)
    \/ nreq = 0 /\ GetTemplates

Spec == Init /\ [][Next]_vars

\* sequences of requests, over a few submissions
ServerNext ==
    \/ \E raw \in ServerSubmissions, dbok \in BOOLEAN, conv \in ConvOutcomes :
          PostGenerate(raw, dbok, conv)
    \/ GetTemplates

ServerSpec == Init /\ [][ServerNext]_vars

TypeOK == nreq \in 0..MaxRequests /\ Len(seen) <= 1

\* ------------------------------------------------------------ properties
\* reading the markup back
IndexOf(seq, tok) ==
    IF \E i \in 1..Len(seq) : seq[i] = tok
    THEN CHOOSE i \in 1..Len(seq) :
            seq[i] = tok /\ \A j \in 1..(i - 1) : seq[j] /= tok
    ELSE 0

\* the tokens after the first `open` up to the next `close`
Between(seq, open, close) ==
    LET from == IndexOf(seq, open)
        rest == SubSeq(seq, from + 1, Len(seq))
    IN SubSeq(rest, 1, IndexOf(rest, close) - 1)

\* the texts of the tags of a skills section, in order
RECURSIVE TagTexts(_)
TagTexts(sec) ==
    IF sec = <<>> THEN <<>>
    ELSE LET k == IndexOf(sec, "</span>")
         IN <<SubSeq(sec, 2, k - 1)>> \o TagTexts(SubSeq(sec, k + 1, Len(sec)))

SkillsSection(html) ==
    Between(SubSeq(html, IndexOf(html, "<h2>Core Skills</h2>"), Len(html)),
            "<div>", "</div>")

SummarySection(html) == Between(html, "<p>", "</p>")

Generated == request.op = "generate" /\ seen /= <<>>

Succeeded == Generated /\ response.status = 200

RequiredFields == {"full_name", "email", "phone", "job_title_target"}

NonSpace(c) == c /= " "

NonWhitespace(c) == c \notin Whitespace

NonBlank(s) == \E i \in 1..Len(s) : s[i] \notin Whitespace

\* C1: for an accepted profile the outcome of generate_cv is the one of the
\* run in which the write succeeds (same status, filename, html and
\* pdf_base64); a failed write only makes the returned id null and is never
\* surfaced as an error.
C1_PersistenceNonFatal ==
    Generated =>
        LET ok == generate_cv(seen[1], <<>>, TRUE, request.conv).response
        IN /\ [response EXCEPT !.id = Null] = [ok EXCEPT !.id = Null]
           /\ response.status = 200 => (IsNull(response.id) <=> ~request.dbok)
           /\ ~request.dbok /\ request.conv /= "raise" => response.status = 200

C1_Witness == Succeeded /\ ~request.dbok /\ IsNull(response.id)

\* C2: a submission with a required field missing, a value of the wrong
\* type or a malformed email fails with the validation error and nothing
\* else happens: no write, no render, no convert, no success response.
MalformedEmails == Emails \ {<<"a", "@", "a", ".", "a">>, <<" ", "a", "@", "a", ".", "a", " ">>}

FailsSchema(raw) ==
    \/ \E f \in RequiredFields : IsAbsent(raw[f])
    \/ \E f \in RequiredFields : IsNull(raw[f])
    \/ \E f \in DOMAIN raw : raw[f].t = "obj"
    \/ IsStr(raw.email) /\ raw.email.v \in MalformedEmails

C2_InvalidDoesNothing ==
    request.op = "generate" /\ FailsSchema(request.raw) =>
        /\ response = ValidationError
        /\ calls = <<>>
        /\ seen = <<>>
        /\ store = <<>>

C2_Witness ==
    /\ request.op = "generate"
    /\ IsAbsent(request.raw.email)
    /\ response = ValidationError

\* C3 as stated: every accepted profile has the four mandatory fields
\* non-empty.
C3_Original ==
    Generated => \A f \in RequiredFields : seen[1][f] /= <<>>

\* C3 amended: every accepted profile has the four mandatory fields present
\* as strings and a non-empty, syntactically valid email; a submission
\* missing one of the four, or with an empty email, is rejected; an empty
\* full_name, phone or job_title_target is accepted and reaches the handler.
C3_Amended ==
    request.op = "generate" =>
        /\ seen /= <<>> =>
              /\ \A f \in RequiredFields : IsStr(request.raw[f])
              /\ \A f \in RequiredFields \ {"email"} : seen[1][f] = request.raw[f].v
              /\ seen[1].email /= <<>>
              /\ seen[1].email \notin MalformedEmails
        /\ (\/ \E f \in RequiredFields : IsAbsent(request.raw[f])
            \/ request.raw.email = Str(<<>>))
              => seen = <<>> /\ response = ValidationError
        /\ \A f \in RequiredFields \ {"email"} :
              request.raw = [Base EXCEPT ![f] = Str(<<>>)]
                 => seen /= <<>> /\ seen[1][f] = <<>>

C3_Witness == Succeeded /\ seen[1].full_name = <<>>

\* C4 as stated: the skills section holds exactly one tag per entry of
\* skills that is non-empty after trimming, in order, each holding the
\* trimmed text, and no empty tag.
C4_SkillTags ==
    Succeeded =>
        LET tags == TagTexts(SkillsSection(response.html))
        IN /\ tags = Map(strip, SelectSeq(seen[1].skills, NonBlank))
           /\ \A i \in 1..Len(tags) : tags[i] /= <<>>

\* C5 as stated: the markup has no bullet list with zero items, and each of
\* the four optional headings is followed by a list with at least one item.
OptionalHeadings ==
    {"<h2>Certifications</h2>", "<h2>Projects / Achievements</h2>",
     "<h2>Languages</h2>", "<h2>Interests</h2>"}

C5_NoEmptyList ==
    Succeeded =>
        LET html == response.html
        IN /\ \A i \in 1..(Len(html) - 1) :
                 ~(html[i] = "<ul>" /\ html[i + 1] = "</ul>")
           /\ \A i \in 1..Len(html) :
                 html[i] \in OptionalHeadings =>
                    /\ i + 2 <= Len(html)
                    /\ html[i + 1] = "<ul>"
                    /\ html[i + 2] = "<li>"

\* C6 as stated: when the conversion fails the request fails with a server
\* error; no success response carries the bytes of a failed conversion.
C6_ConversionFailureSurfaced ==
    Generated /\ request.conv /= "ok" => response.status = 500

\* C7 as stated: the filename is full_name without whitespace, immediately
\* followed by job_title_target without whitespace, then the suffix, and
\* has no whitespace in it.
C7_Original ==
    Succeeded =>
        /\ response.filename =
              SelectSeq(seen[1].full_name, NonWhitespace)
              \o SelectSeq(seen[1].job_title_target, NonWhitespace)
              \o <<"_MakeMeHiredCV.pdf">>
        /\ \A i \in 1..Len(response.filename) :
              response.filename[i] \notin Whitespace

\* C7 amended: the filename is full_name with its space characters removed,
\* an underscore, job_title_target with its space characters removed, then
\* "_MakeMeHiredCV.pdf"; it has no space character, and any other character
\* of the two fields (a tab included) is kept.
C7_Amended ==
    Succeeded =>
        /\ response.filename =
              SelectSeq(seen[1].full_name, NonSpace) \o <<"_">>
              \o SelectSeq(seen[1].job_title_target, NonSpace)
              \o <<"_MakeMeHiredCV.pdf">>
        /\ \A i \in 1..Len(response.filename) : response.filename[i] /= " "
        /\ Count(response.filename, "\t")
              = Count(seen[1].full_name, "\t")
                + Count(seen[1].job_title_target, "\t")

C7_Witness ==
    /\ Succeeded
    /\ seen[1].full_name = <<" ", "\t">>
    /\ seen[1].job_title_target = <<"a", " ">>

\* C8: a request changes the datastore only by appending the submitted
\* profile, once, when it is a generate request that passed validation and
\* whose write succeeded, whatever the conversion then did; every other
\* request leaves the datastore as it was.
C8_StoreFrame ==
    [][ LET wrote == /\ request'.op = "generate"
                     /\ seen' /= <<>>
                     /\ request'.dbok
        IN /\ wrote =>
                store' = Append(store, [collection |-> "cvprofile",
                                        doc |-> CVProfile(request'.raw)])
           /\ ~wrote => store' = store ]_vars

C8_Witness ==
    /\ Len(store) = 2
    /\ Generated
    /\ request.dbok
    /\ response.status = 500

\* C9: the summary section is the fallback sentence built from
\* job_title_target exactly when summary is null or empty, and is the
\* submitted summary otherwise.
C9_SummaryFallback ==
    Succeeded =>
        LET sec == SummarySection(response.html)
            p == seen[1]
            blank == IsNull(p.summary) \/ p.summary = Str(<<>>)
        IN /\ blank => sec = <<"Results-driven ">> \o p.job_title_target
                 \o <<" with experience across key areas and strong focus on measurable impact.">>
           /\ ~blank => sec = p.summary.v
           /\ blank <=> "Results-driven " \in {sec[i] : i \in 1..Len(sec)}

C9_Witness == Succeeded /\ seen[1].summary = Str(<<>>)

\* C10: changing only the template of the profile changes neither the
\* markup of render_cv_html nor the filename, html and pdf_base64 of
\* generate_cv.
ValidTemplates == {t \in TemplateValues : OptionalStr(t) /\ ~IsAbsent(t)}

C10_TemplateIgnored ==
    Generated =>
        \A t \in ValidTemplates :
            LET other == [seen[1] EXCEPT !.template = t]
                r == generate_cv(other, <<>>, request.dbok, request.conv).response
            IN /\ render_cv_html(other) = render_cv_html(seen[1])
               /\ r.status = response.status
               /\ r.filename = response.filename
               /\ r.html = response.html
               /\ r.pdf_base64 = response.pdf_base64

C10_Witness == Succeeded /\ seen[1].template = Str(<<"x">>)

====
